---- MODULE Spec2Model ----
(***************************************************************************)
(* Candidate Scoring API (src/llm/api_server.py) and the batch scorer it   *)
(* drives (src/llm/llm_interaction.py).                                    *)
(*                                                                         *)
(* The server is one asyncio event loop.  The three endpoints contain no   *)
(* await, so each runs as one atomic step.  run_scoring_task is started by *)
(* the framework after the response of its submission has been sent; its   *)
(* two status updates are two steps, between which nothing else runs       *)
(* because the code between them never suspends.                           *)
(*                                                                         *)
(* Optional values are sequences of length 0 (None) or 1.  Time is counted *)
(* in minutes.  The task table is a Python dict: a sequence of records in  *)
(* insertion order, with unique task_id.                                   *)
(***************************************************************************)
EXTENDS Integers, Sequences, FiniteSets, TLC

\* ------------------------------------------------------------------ bounds
MaxLegacy == 1      \* records already in the persisted table at start-up
MaxSubmits == 2     \* submissions accepted in one run of the model
TickMinutes == 10   \* minutes the clock advances per Tick
MaxNow == 20        \* last clock value
MaxCands == 11      \* size of the largest submitted candidate list
MaxScoreCands == 21 \* size of the largest list given to score_candidates directly

\* ------------------------------------------------------- program constants
FRESH_MINUTES == 10
BATCH_SIZE == 10
MAX_RETRIES == 3

\* ------------------------------------------------------------------ values
None == <<>>
Some(x) == <<x>>

TaskStatus == {"PENDING", "PROCESSING", "COMPLETED", "FAILED"}
\* Job descriptions of the submissions, and of the tasks found at start-up
\* ("J2" is a text no submission carries).
JobDescs == {"J1"}
LegacyJobDescs == {"J1", "J2"}
LegacyStatuses == {"COMPLETED"}
AnyLegacyStatuses == {"PROCESSING", "COMPLETED", "COMPLETED_NO_RESULT"}
CandSizes == {MaxCands}
Candidates(n) == [i \in 1..n |-> i]

Msg(text, ref) == [text |-> text, ref |-> ref]

TaskInfo(task_id, status, job_description, created_at, message, result, error_detail) ==
    [task_id |-> task_id, status |-> status, job_description |-> job_description,
     created_at |-> created_at, message |-> message, result |-> result,
     error_detail |-> error_detail]

ScoredCandidate(id, score) == [id |-> id, score |-> score]
ScoringOutput(scored_candidates, errors) ==
    [scored_candidates |-> scored_candidates, errors |-> errors]

VARIABLES task_store, file, now, next_id, bg, resp, sc, disk
vars == <<task_store, file, now, next_id, bg, resp, sc, disk>>

\* ------------------------------------------------------- dict operations
Keys(store) == {store[i].task_id : i \in 1..Len(store)}
Get(store, task_id) ==
    LET i == CHOOSE j \in 1..Len(store) : store[j].task_id = task_id IN store[i]
Pop(store, task_id) == SelectSeq(store, LAMBDA e : e.task_id # task_id)
\* Mutant: the write starts from an empty table, not from the one it is given.
Put_alone(store, info) == <<info>>

Put(store, info) ==
    IF info.task_id \in Keys(store)
    THEN [i \in 1..Len(store) |->
            IF store[i].task_id = info.task_id THEN info ELSE store[i]]
    ELSE Append(store, info)

RECURSIVE PopAll(_, _)
PopAll(store, ids) ==
    IF ids = <<>> THEN store ELSE PopAll(Pop(store, Head(ids)), Tail(ids))

\* ----------------------------------------------- persistence (JSON file)
\* model_dump(mode='json'): an absent Optional becomes null, a present one its
\* JSON value; json.load + TaskInfo(**info) reads them back.
JsonOpt(o) == IF o = None THEN <<"null">> ELSE <<"value", o[1]>>
FromJsonOpt(j) == IF j[1] = "null" THEN None ELSE Some(j[2])

\* Mutant: error_detail is not serialized.
model_dump_no_detail(info) ==
    [task_id |-> info.task_id, status |-> info.status,
     job_description |-> info.job_description,
     created_at |-> JsonOpt(info.created_at),
     message |-> info.message,
     result |-> JsonOpt(info.result),
     error_detail |-> JsonOpt(None)]

model_dump(info) ==
    [task_id |-> info.task_id, status |-> info.status,
     job_description |-> info.job_description,
     created_at |-> JsonOpt(info.created_at),
     message |-> info.message,
     result |-> JsonOpt(info.result),
     error_detail |-> JsonOpt(info.error_detail)]

model_validate(j) ==
    TaskInfo(j.task_id, j.status, j.job_description, FromJsonOpt(j.created_at),
             j.message, FromJsonOpt(j.result), FromJsonOpt(j.error_detail))

json_dump(store) == [i \in 1..Len(store) |-> model_dump(store[i])]
json_load(text) == [i \in 1..Len(text) |-> model_validate(text[i])]

\* Mutant: the load has no except branch; it takes the records the bytes show.
load_tasks_from_file_unguarded(f) ==
    IF f.exists THEN json_load(f.text) ELSE <<>>

load_tasks_from_file(f) ==
    IF f.exists
    THEN IF f.valid THEN json_load(f.text) ELSE <<>>
    ELSE <<>>

\* The state of the disk decides how a save ends: it succeeds; or it fails
\* before the file is opened for writing, or in opening it, and the file is as
\* it was; or it fails in json.dump, after open(..., 'w') has truncated the
\* file, and what is left is not a JSON document.  The exception is logged and
\* not raised.
DiskModes == {"ok", "open_fails", "write_fails"}

save_tasks_to_file(store, f) ==
    IF disk = "ok"
    THEN [exists |-> TRUE, valid |-> TRUE, text |-> json_dump(store)]
    ELSE IF disk = "open_fails"
         THEN f
         ELSE [exists |-> TRUE, valid |-> FALSE, text |-> <<>>]

\* The persisted table as a table.
Persisted == load_tasks_from_file(file)

\* ------------------------------------------------------ update_task_status
\* Returns the in-memory table and the file after the call.
Updated(store, f) == [store |-> store, file |-> f]

\* Mutant: a status update of an absent id inserts a record for it.
update_task_status_upsert(store, f, task_id, status, message, result, error_detail) ==
    LET new == TaskInfo(task_id, status, "", None, message, result, error_detail)
        old == IF task_id \in Keys(store) THEN Get(store, task_id) ELSE new
        upd == [old EXCEPT
                   !.status = status,
                   !.message = message,
                   !.result = IF result # None THEN result ELSE @,
                   !.error_detail = IF error_detail # None THEN error_detail ELSE @]
        store2 == Put(store, upd)
    IN  Updated(store2, save_tasks_to_file(store2, f))

\* Mutant: error_detail is never stored.
update_task_status_no_detail(store, f, task_id, status, message, result, error_detail) ==
    IF task_id \in Keys(store)
    THEN LET old == Get(store, task_id)
             new == [old EXCEPT
                        !.status = status,
                        !.message = message,
                        !.result = IF result # None THEN result ELSE @]
             store2 == Put(store, new)
         IN  Updated(store2, save_tasks_to_file(store2, f))
    ELSE Updated(store, f)

\* Mutant: the update changes the record in memory and does not save.
update_task_status_no_save(store, f, task_id, status, message, result, error_detail) ==
    IF task_id \in Keys(store)
    THEN LET old == Get(store, task_id)
             new == [old EXCEPT
                        !.status = status,
                        !.message = message,
                        !.result = IF result # None THEN result ELSE @,
                        !.error_detail = IF error_detail # None THEN error_detail ELSE @]
         IN  Updated(Put(store, new), f)
    ELSE Updated(store, f)

update_task_status(store, f, task_id, status, message, result, error_detail) ==
    IF task_id \in Keys(store)
    THEN LET old == Get(store, task_id)
             new == [old EXCEPT
                        !.status = status,
                        !.message = message,
                        !.result = IF result # None THEN result ELSE @,
                        !.error_detail = IF error_detail # None THEN error_detail ELSE @]
             store2 == Put(store, new)
         IN  Updated(store2, save_tasks_to_file(store2, f))
    ELSE Updated(store, f)

\* ---------------------------------------------------------- batch scoring
Min(a, b) == IF a < b THEN a ELSE b
\* Mutant: the number of full batches; a last, shorter batch is not scored.
NumBatches_floor(n) == n \div BATCH_SIZE

NumBatches(n) == (n + BATCH_SIZE - 1) \div BATCH_SIZE
BatchOf(candidates, k) ==
    SubSeq(candidates, (k - 1) * BATCH_SIZE + 1, Min(k * BATCH_SIZE, Len(candidates)))

\* What the model returns for a batch that is scored: one record per candidate.
ScoredBatch(batch) == [j \in 1..Len(batch) |-> ScoredCandidate(batch[j], 50)]

\* What the model returns for a batch when it breaks the schema: a score above
\* the le=100 of ScoredCandidate.score.
SCORE_GE == 0
SCORE_LE == 100
InvalidBatch(batch) ==
    [j \in 1..Len(batch) |-> ScoredCandidate(batch[j], SCORE_LE + 1)]
\* Mutant: the error string of a failed batch names no candidate.
BatchError_no_ids(batch, exc) == [text |-> "Failed to score batch", ids |-> <<>>, exc |-> exc]

BatchError(batch, exc) == [text |-> "Failed to score batch", ids |-> batch, exc |-> exc]

\* llm[k] says whether score_candidates_batch returns for batch k records that
\* keep the schema ("ok") or break it ("invalid"), or raises.  json_list_parser
\* is a JsonOutputParser: it decodes the records and validates nothing, so the
\* records of an "invalid" batch are returned like any other.
LlmBehaviours(n) == [1..NumBatches(n) -> {"ok", "invalid", "raise"}]

RECURSIVE score_candidates_from(_, _, _, _, _)
score_candidates_from(candidates, llm, k, all_scored_candidates, errors) ==
    IF k > NumBatches(Len(candidates))
    THEN <<all_scored_candidates, errors>>
    ELSE LET batch == BatchOf(candidates, k) IN
         IF llm[k] = "ok"
         THEN score_candidates_from(candidates, llm, k + 1,
                                    all_scored_candidates \o ScoredBatch(batch), errors)
         ELSE IF llm[k] = "invalid"
         THEN score_candidates_from(candidates, llm, k + 1,
                                    all_scored_candidates \o InvalidBatch(batch), errors)
         ELSE score_candidates_from(candidates, llm, k + 1, all_scored_candidates,
                                    Append(errors, BatchError(batch, "Exception")))

score_candidates(candidates, llm) ==
    score_candidates_from(candidates, llm, 1, <<>>, <<>>)

\* The keyword parameters score_candidates declares, and the keyword arguments
\* run_scoring_task passes to it.  A keyword that is not a parameter makes the
\* call itself raise TypeError, before any of the function's body runs.
score_candidates_params == {"job_description", "candidates", "model_provider"}
run_scoring_task_kwargs ==
    {"job_description", "candidates", "model_provider", "progress_callback"}

CallOutcome(raised, exc, value) == [raised |-> raised, exc |-> exc, value |-> value]

call_score_candidates(kwargs, candidates, llm) ==
    IF kwargs \subseteq score_candidates_params
    THEN CallOutcome(FALSE, "", score_candidates(candidates, llm))
    ELSE CallOutcome(TRUE, "TypeError", <<<<>>, <<>>>>)

\* "final_result = ScoringOutput(scored_candidates=..., errors=errors)": the
\* constructor validates every record against ScoredCandidate, score: int =
\* Field(..., ge=0, le=100), and raises ValidationError.
final_result(scored_candidates_list, errors) ==
    IF \A j \in 1..Len(scored_candidates_list) :
          scored_candidates_list[j].score \in SCORE_GE..SCORE_LE
    THEN CallOutcome(FALSE, "", Some(ScoringOutput(scored_candidates_list, errors)))
    ELSE CallOutcome(TRUE, "ValidationError", None)

\* ------------------------------------------- one run of score_candidates
\* score_candidates called directly (main.py, and the tests), one step per
\* call of the invoker, of the LLM chain, and per handling of what came back.
\* The invoker is the module's invoke_llm_with_retry, or the AsyncMock the
\* tests put in its place.
server_vars == <<task_store, file, now, next_id, bg, resp, disk>>

ScoreSizes == {0, 1, BATCH_SIZE, BATCH_SIZE + 1, MaxScoreCands}
Invokers == {"invoke_llm_with_retry", "AsyncMock"}

\* Python values that come back from a chain: the list that json_list_parser
\* decoded, or the text that string_parser passed on.  A text is described by
\* what decides its parsing: whether it holds anything besides a JSON array,
\* and the array it holds, if any.
PyList(items) == [type |-> "list", prose |-> FALSE, array |-> Some(items)]
PyStr(prose, array) == [type |-> "str", prose |-> prose, array |-> array]
NoValue == [type |-> "None", prose |-> FALSE, array |-> None]

\* An exception: its class, and for a RetryError the class of the exception of
\* the last attempt.
Exc(name, cause) == [name |-> name, cause |-> cause]
NoExc == Exc("", "")

Returned(value) == CallOutcome(FALSE, NoExc, value)
Raised(exc) == CallOutcome(TRUE, exc, NoValue)

\* chain.invoke for the chain of attempt 1, prompt | llm | json_list_parser:
\* the decoded list, the parser's OutputParserException, or an error of the
\* provider's API.
StrictChainOutcomes(batch) ==
    {Returned(PyList(ScoredBatch(batch))),
     Raised(Exc("OutputParserException", "")),
     Raised(Exc("APIError", ""))}

\* chain.invoke for the chain of attempt 2, prompt | llm | string_parser: the
\* model's text (a JSON array, a JSON array inside prose, or prose), or an
\* error of the provider's API.
LenientChainOutcomes(batch) ==
    {Returned(PyStr(FALSE, Some(ScoredBatch(batch)))),
     Returned(PyStr(TRUE, Some(ScoredBatch(batch)))),
     Returned(PyStr(TRUE, None)),
     Raised(Exc("APIError", ""))}

ChainOutcomes(attempt_num, batch) ==
    IF attempt_num > 1 THEN LenientChainOutcomes(batch) ELSE StrictChainOutcomes(batch)

\* The return values and side effects the tests give the mocked invoker: what
\* the chain of the attempt returns, OutputParserException, or RetryError.
MockSideEffects(attempt_num, batch) ==
    {o \in ChainOutcomes(attempt_num, batch) : ~o.raised}
        \cup {Raised(Exc("OutputParserException", "")),
              Raised(Exc("RetryError", "APIError"))}

\* Mutant: the retry loop stops one attempt later.
stop_after_attempt_late(attempt_number) == attempt_number > MAX_RETRIES

\* Mutant: the retry loop never gives up.
stop_after_attempt_never(attempt_number) == FALSE

\* stop=stop_after_attempt(MAX_RETRIES)
stop_after_attempt(attempt_number) == attempt_number >= MAX_RETRIES

\* retry=retry_if_exception_type((Exception)): every exception class of the
\* model derives from Exception.
retry_if_exception_type(exc) == TRUE

\* "await invoke_llm_with_retry(...)": invoke_llm_with_retry is a plain def, so
\* the call has already run it and the operand of await is its return value, a
\* list or a str, which is not awaitable.  An AsyncMock returns an awaitable.
Awaitable(invoker) == invoker = "AsyncMock"
await_result(invoker, outcome) ==
    IF outcome.raised THEN outcome
    ELSE IF Awaitable(invoker) THEN outcome
    ELSE Raised(Exc("TypeError", ""))

\* json.loads(result)
json_loads(text) ==
    IF ~text.prose /\ text.array # None
    THEN Returned(PyList(text.array[1]))
    ELSE Raised(Exc("JSONDecodeError", ""))

\* json_list_parser.parse(parsed_result): parse is declared for a text and is
\* given the decoded list.  The test of the lenient attempt expects the list
\* back; the parser library may instead reject an argument that is not a text.
json_list_parser_parse(parsed_result) ==
    {Returned(parsed_result.value), Raised(Exc("ValidationError", ""))}

\* Lines 170-184: what the body of the try block makes of the awaited result.
try_block(awaited) ==
    IF awaited.raised THEN {awaited}
    ELSE IF awaited.value.type = "str"
         THEN LET parsed_result == json_loads(awaited.value) IN
              IF parsed_result.raised
              THEN {Raised(Exc("OutputParserException", parsed_result.exc.name))}
              ELSE json_list_parser_parse(parsed_result)
         ELSE {awaited}

\* Mutant: a parse failure of the second attempt starts another attempt.
retry_with_less_strict_prompt_again(exc, attempt_num) ==
    exc.name = "OutputParserException" /\ attempt_num <= 2

\* "except OutputParserException ... if attempt_num == 1"
retry_with_less_strict_prompt(exc, attempt_num) ==
    exc.name = "OutputParserException" /\ attempt_num = 1

\* The state of the run.  invoked lists, for the batch being scored, each call
\* of the invoker: what it came back with and the chain calls it made; log
\* lists the batches that have ended.
Run(invoker, candidates, pc) ==
    [invoker |-> invoker, candidates |-> candidates, pc |-> pc, k |-> 1,
     attempt_num |-> 1, attempt_number |-> 1, chain_log |-> <<>>,
     invoked |-> <<>>, awaited |-> Returned(NoValue),
     all_scored_candidates |-> <<>>, errors |-> <<>>, log |-> <<>>]
NoRun == Run("", <<>>, "none")

InvokerCall(outcome, calls) == [outcome |-> outcome, calls |-> calls]
BatchRecord(ids, invoked, outcome) ==
    [ids |-> ids, invoked |-> invoked, outcome |-> outcome]

\* "for i in range(0, len(candidates), BATCH_SIZE)": the next batch, and the
\* call of score_candidates_batch for it, attempt_num = 1.
score_candidates_next_batch ==
    /\ sc.pc = "loop"
    /\ sc.k <= NumBatches(Len(sc.candidates))
    /\ sc' = [sc EXCEPT !.pc = "batch", !.attempt_num = 1, !.invoked = <<>>]
    /\ UNCHANGED server_vars

\* The loop is exhausted: "return all_scored_candidates, errors".
score_candidates_return ==
    /\ sc.pc = "loop"
    /\ sc.k > NumBatches(Len(sc.candidates))
    /\ sc' = [sc EXCEPT !.pc = "returned"]
    /\ UNCHANGED server_vars

\* score_candidates_batch up to its call of invoke_llm_with_retry, which
\* starts the first attempt of the retry loop.
invoke_llm_with_retry_begin ==
    /\ sc.pc = "batch"
    /\ sc.invoker = "invoke_llm_with_retry"
    /\ sc' = [sc EXCEPT !.pc = "chain", !.attempt_number = 1, !.chain_log = <<>>]
    /\ UNCHANGED server_vars

\* One attempt of the retry loop: "return chain.invoke(prompt_values)".  A
\* return ends the call of the invoker; an exception is retried until
\* stop_after_attempt, then RetryError is raised from the last one.
invoke_llm_with_retry_attempt ==
    /\ sc.pc = "chain"
    /\ \E o \in ChainOutcomes(sc.attempt_num, BatchOf(sc.candidates, sc.k)) :
         LET calls == Append(sc.chain_log, o)
             retry_error == Raised(Exc("RetryError", o.exc.name))
         IN  IF o.raised /\ retry_if_exception_type(o.exc)
             THEN IF stop_after_attempt(sc.attempt_number)
                  THEN sc' = [sc EXCEPT
                                 !.pc = "result",
                                 !.chain_log = calls,
                                 !.invoked = Append(@, InvokerCall(retry_error, calls)),
                                 !.awaited = await_result(sc.invoker, retry_error)]
                  ELSE sc' = [sc EXCEPT
                                 !.chain_log = calls,
                                 !.attempt_number = @ + 1]
             ELSE sc' = [sc EXCEPT
                            !.pc = "result",
                            !.chain_log = calls,
                            !.invoked = Append(@, InvokerCall(o, calls)),
                            !.awaited = await_result(sc.invoker, o)]
    /\ UNCHANGED server_vars

\* score_candidates_batch up to its call of the mocked invoker, which returns
\* or raises what the test set.
AsyncMock_call ==
    /\ sc.pc = "batch"
    /\ sc.invoker = "AsyncMock"
    /\ \E o \in MockSideEffects(sc.attempt_num, BatchOf(sc.candidates, sc.k)) :
         sc' = [sc EXCEPT
                   !.pc = "result",
                   !.invoked = Append(@, InvokerCall(o, <<>>)),
                   !.awaited = await_result(sc.invoker, o)]
    /\ UNCHANGED server_vars

\* The rest of score_candidates_batch (lines 170-210), and when the batch ends
\* the try/except of score_candidates around it (lines 226-238).
score_candidates_batch_result ==
    /\ sc.pc = "result"
    /\ \E t \in try_block(sc.awaited) :
         LET batch == BatchOf(sc.candidates, sc.k)
             ended == [sc EXCEPT
                          !.pc = "loop",
                          !.k = @ + 1,
                          !.log = Append(@, BatchRecord(batch, sc.invoked, t))]
         IN  IF t.raised
             THEN IF retry_with_less_strict_prompt(t.exc, sc.attempt_num)
                  THEN sc' = [sc EXCEPT !.pc = "batch", !.attempt_num = @ + 1]
                  ELSE sc' = [ended EXCEPT
                                 !.errors = Append(@, BatchError(batch, t.exc.name))]
             ELSE sc' = [ended EXCEPT
                            !.all_scored_candidates = @ \o t.value.array[1]]
    /\ UNCHANGED server_vars

\* ------------------------------------------------------------- cache scan
\* The loop of initiate_score_endpoint over list(task_store.items()): stops at
\* the first fresh COMPLETED task with the same job description, and collects
\* the expired ones met before it.
ScanResult(cached_task_info, tasks_to_delete) ==
    [cached_task_info |-> cached_task_info, tasks_to_delete |-> tasks_to_delete]

\* Mutant: a task created exactly ten minutes ago counts as expired.
IsFresh_strict(created_at, ten_minutes_ago) == created_at > ten_minutes_ago

IsFresh(created_at, ten_minutes_ago) == created_at >= ten_minutes_ago

\* Mutant: the scan stops at the first expired task instead of going on.
RECURSIVE cache_scan_stop_at_expired(_, _, _, _, _)
cache_scan_stop_at_expired(store, i, job_desc, ten_minutes_ago, tasks_to_delete) ==
    IF i > Len(store)
    THEN ScanResult(None, tasks_to_delete)
    ELSE LET existing_task == store[i] IN
         IF /\ existing_task.job_description = job_desc
            /\ existing_task.status = "COMPLETED"
            /\ existing_task.created_at # None
         THEN IF IsFresh(existing_task.created_at[1], ten_minutes_ago)
              THEN ScanResult(Some(existing_task), tasks_to_delete)
              ELSE ScanResult(None, Append(tasks_to_delete, existing_task.task_id))
         ELSE cache_scan_stop_at_expired(store, i + 1, job_desc, ten_minutes_ago,
                                         tasks_to_delete)

\* Mutant: the scan takes the tasks of every job description.
RECURSIVE cache_scan_any_job(_, _, _, _, _)
cache_scan_any_job(store, i, job_desc, ten_minutes_ago, tasks_to_delete) ==
    IF i > Len(store)
    THEN ScanResult(None, tasks_to_delete)
    ELSE LET existing_task == store[i] IN
         IF /\ existing_task.status = "COMPLETED"
            /\ existing_task.created_at # None
         THEN IF IsFresh(existing_task.created_at[1], ten_minutes_ago)
              THEN ScanResult(Some(existing_task), tasks_to_delete)
              ELSE cache_scan_any_job(store, i + 1, job_desc, ten_minutes_ago,
                                      Append(tasks_to_delete, existing_task.task_id))
         ELSE cache_scan_any_job(store, i + 1, job_desc, ten_minutes_ago,
                                 tasks_to_delete)

RECURSIVE cache_scan(_, _, _, _, _)
cache_scan(store, i, job_desc, ten_minutes_ago, tasks_to_delete) ==
    IF i > Len(store)
    THEN ScanResult(None, tasks_to_delete)
    ELSE LET existing_task == store[i] IN
         IF /\ existing_task.job_description = job_desc
            /\ existing_task.status = "COMPLETED"
            /\ existing_task.created_at # None
         THEN IF IsFresh(existing_task.created_at[1], ten_minutes_ago)
              THEN ScanResult(Some(existing_task), tasks_to_delete)
              ELSE cache_scan(store, i + 1, job_desc, ten_minutes_ago,
                              Append(tasks_to_delete, existing_task.task_id))
         ELSE cache_scan(store, i + 1, job_desc, ten_minutes_ago, tasks_to_delete)

\* Mutant: a matched task is reused whether or not it carries a result.
cache_hit_without_result(cached_task_info) == cached_task_info # None

\* "if cached_task_info and cached_task_info.result": a model object is truthy,
\* so this tests that both are present.
cache_hit(cached_task_info) ==
    cached_task_info # None /\ cached_task_info[1].result # None

\* ------------------------------------------------------- background tasks
TaskIds == 1..(MaxLegacy + MaxSubmits)
NoJob == [pc |-> "none", job_description |-> "", candidates |-> <<>>]
Job(pc, job_description, candidates) ==
    [pc |-> pc, job_description |-> job_description, candidates |-> candidates]

\* run_scoring_task never suspends between its first and its last status
\* update, so nothing else runs while one is at "processing".
Idle == \A t \in TaskIds : bg[t].pc # "processing"

\* The last request handled: its response, and the task ids its handler logged
\* as deleted because expired.
NoResp == [op |-> "none", task_id |-> 0, code |-> 0, body |-> None, log |-> <<>>]
Response(op, task_id, code, body, log) ==
    [op |-> op, task_id |-> task_id, code |-> code, body |-> body, log |-> log]

\* ------------------------------------------------------------------- Init
\* The persisted table outlives the process: at start-up it holds what earlier
\* runs left, in the order they were written: here, tasks that completed. The
\* in-memory table is empty: the application module is created with
\* task_store = {}.
LegacyTask(k, status, job_description) ==
    TaskInfo(k, status, job_description, Some(0), Msg("legacy", 0),
             IF status = "COMPLETED"
             THEN Some(ScoringOutput(<<ScoredCandidate(k, 50)>>, <<>>)) ELSE None,
             IF status = "FAILED" THEN Some("legacy error") ELSE None)

LegacyTables ==
    UNION {{[k \in 1..n |-> LegacyTask(k, c[k][1], c[k][2])] :
                c \in [1..n -> LegacyStatuses \X LegacyJobDescs]} : n \in 0..MaxLegacy}

InitWith(tables) ==
    /\ disk = "ok"
    /\ task_store = <<>>
    /\ \E t \in tables :
          file = IF t = <<>>
                 THEN [exists |-> FALSE, valid |-> TRUE, text |-> <<>>]
                 ELSE save_tasks_to_file(t, [exists |-> FALSE, valid |-> TRUE, text |-> <<>>])
    /\ now = 0
    /\ next_id = MaxLegacy + 1
    /\ bg = [t \in TaskIds |-> NoJob]
    /\ resp = NoResp
    /\ sc = NoRun

Init == InitWith(LegacyTables)

\* Any well-formed start-up table: besides completed tasks, a task that was
\* being scored when the process stopped, and a COMPLETED record without a
\* result, which the submission scan tests for.
AnyLegacyTask(k, kind, job_description) ==
    IF kind = "COMPLETED_NO_RESULT"
    THEN [LegacyTask(k, "COMPLETED", job_description) EXCEPT !.result = None]
    ELSE LegacyTask(k, kind, job_description)

AnyLegacyTables ==
    UNION {{[k \in 1..n |-> AnyLegacyTask(k, c[k][1], c[k][2])] :
                c \in [1..n -> AnyLegacyStatuses \X LegacyJobDescs]} :
           n \in 0..MaxLegacy}

InitAnyFile == InitWith(AnyLegacyTables)

\* ---------------------------------------------------------------- actions
\* POST /score
initiate_score_endpoint(job_desc, candidates) ==
    /\ Idle
    /\ next_id <= MaxLegacy + MaxSubmits
    /\ LET task_id == next_id
           loaded == load_tasks_from_file(file)
           ten_minutes_ago == now - FRESH_MINUTES
           scan == cache_scan(loaded, 1, job_desc, ten_minutes_ago, <<>>)
           cached_task_info == scan.cached_task_info
           after_delete == PopAll(loaded, scan.tasks_to_delete)
           hit == cache_hit(cached_task_info)
           new_task_info ==
               IF hit
               THEN TaskInfo(task_id, "COMPLETED", job_desc, Some(now),
                             Msg("Result retrieved from cache", cached_task_info[1].task_id),
                             cached_task_info[1].result, None)
               ELSE TaskInfo(task_id, "PENDING", job_desc, Some(now),
                             Msg("Task received and pending execution.", 0), None, None)
           store2 == Put(after_delete, new_task_info)
       IN  /\ task_store' = store2
           /\ file' = save_tasks_to_file(store2, file)
           /\ bg' = IF hit THEN bg
                    ELSE [bg EXCEPT ![task_id] = Job("queued", job_desc, candidates)]
           /\ next_id' = next_id + 1
           /\ resp' = Response("submit", task_id, 202, None, scan.tasks_to_delete)
    /\ UNCHANGED <<now, sc, disk>>

\* Mutant: the poll answers from the in-memory table without reloading.
get_score_status_endpoint_no_reload(task_id) ==
    /\ Idle
    /\ resp' = IF task_id \in Keys(task_store)
               THEN Response("status", task_id, 200, Some(Get(task_store, task_id)), <<>>)
               ELSE Response("status", task_id, 404, None, <<>>)
    /\ UNCHANGED <<task_store, file, now, next_id, bg, sc, disk>>

\* GET /score/status/{task_id}
get_score_status_endpoint(task_id) ==
    /\ Idle
    /\ LET loaded == load_tasks_from_file(file) IN
       /\ task_store' = loaded
       /\ resp' = IF task_id \in Keys(loaded)
                  THEN Response("status", task_id, 200, Some(Get(loaded, task_id)), <<>>)
                  ELSE Response("status", task_id, 404, None, <<>>)
    /\ UNCHANGED <<file, now, next_id, bg, sc, disk>>

\* Mutant: the delete removes the record in memory and does not save.
delete_task_endpoint_no_save(task_id) ==
    /\ Idle
    /\ LET loaded == load_tasks_from_file(file) IN
       IF task_id \in Keys(loaded)
       THEN /\ task_store' = Pop(loaded, task_id)
            /\ resp' = Response("delete", task_id, 204, None, <<>>)
       ELSE /\ task_store' = loaded
            /\ resp' = Response("delete", task_id, 404, None, <<>>)
    /\ UNCHANGED <<file, now, next_id, bg, sc, disk>>

\* DELETE /score/task/{task_id}
delete_task_endpoint(task_id) ==
    /\ Idle
    /\ LET loaded == load_tasks_from_file(file) IN
       IF task_id \in Keys(loaded)
       THEN LET store2 == Pop(loaded, task_id) IN
            /\ task_store' = store2
            /\ file' = save_tasks_to_file(store2, file)
            /\ resp' = Response("delete", task_id, 204, None, <<>>)
       ELSE /\ task_store' = loaded
            /\ file' = file
            /\ resp' = Response("delete", task_id, 404, None, <<>>)
    /\ UNCHANGED <<now, next_id, bg, sc, disk>>

\* Mutant: the run starts without recording PROCESSING.
run_scoring_task_begin_silent(task_id) ==
    /\ Idle
    /\ bg[task_id].pc = "queued"
    /\ bg' = [bg EXCEPT ![task_id].pc = "processing"]
    /\ UNCHANGED <<task_store, file, now, next_id, resp, sc, disk>>

\* run_scoring_task up to its first status update.
run_scoring_task_begin(task_id) ==
    /\ Idle
    /\ bg[task_id].pc = "queued"
    /\ LET u == update_task_status(task_store, file, task_id, "PROCESSING",
                                   Msg("Scoring process initiated.", 0), None, None)
       IN  /\ task_store' = u.store
           /\ file' = u.file
    /\ bg' = [bg EXCEPT ![task_id].pc = "processing"]
    /\ UNCHANGED <<now, next_id, resp, sc, disk>>

\* Mutant: run_scoring_task has no except branch; an exception of the scoring
\* ends the run without a status update.
run_scoring_task_score_no_except(task_id) ==
    /\ bg[task_id].pc = "processing"
    /\ \E llm \in LlmBehaviours(Len(bg[task_id].candidates)) :
         LET call == call_score_candidates(run_scoring_task_kwargs,
                                           bg[task_id].candidates, llm)
             scored_candidates_list == call.value[1]
             errors == call.value[2]
             built == IF call.raised THEN call
                      ELSE final_result(scored_candidates_list, errors)
             u == IF built.raised
                  THEN Updated(task_store, file)
                  ELSE update_task_status(task_store, file, task_id, "COMPLETED",
                           Msg("Scoring complete.", Len(scored_candidates_list)),
                           built.value, None)
         IN  /\ task_store' = u.store
             /\ file' = u.file
    /\ bg' = [bg EXCEPT ![task_id].pc = "done"]
    /\ UNCHANGED <<now, next_id, resp, sc, disk>>

\* The try block of run_scoring_task and its except branch, the batches
\* behaving as llm says: the call of score_candidates, the building of the
\* result, and the last status update.
run_scoring_task_try(task_id, llm) ==
    /\ bg[task_id].pc = "processing"
    /\ LET call == call_score_candidates(run_scoring_task_kwargs,
                                         bg[task_id].candidates, llm)
           scored_candidates_list == call.value[1]
           errors == call.value[2]
           built == IF call.raised THEN call
                    ELSE final_result(scored_candidates_list, errors)
           u == IF built.raised
                THEN update_task_status(task_store, file, task_id, "FAILED",
                         Msg("Scoring failed due to an internal error.", 0),
                         None, Some(built.exc))
                ELSE update_task_status(task_store, file, task_id, "COMPLETED",
                         Msg("Scoring complete.", Len(scored_candidates_list)),
                         built.value, None)
       IN  /\ task_store' = u.store
           /\ file' = u.file
    /\ bg' = [bg EXCEPT ![task_id].pc = "done"]
    /\ UNCHANGED <<now, next_id, resp, sc, disk>>

\* run_scoring_task from the call of score_candidates to its last status update.
run_scoring_task_score(task_id) ==
    \E llm \in LlmBehaviours(Len(bg[task_id].candidates)) :
        run_scoring_task_try(task_id, llm)

\* The wall clock.
Tick ==
    /\ Idle
    /\ now + TickMinutes <= MaxNow
    /\ now' = now + TickMinutes
    /\ UNCHANGED <<task_store, file, next_id, bg, resp, sc, disk>>

Next ==
    \/ \E job_desc \in JobDescs, n \in CandSizes :
          initiate_score_endpoint(job_desc, Candidates(n))
    \/ \E task_id \in TaskIds : get_score_status_endpoint(task_id)
    \/ \E task_id \in TaskIds : delete_task_endpoint(task_id)
    \/ \E task_id \in TaskIds : run_scoring_task_begin(task_id)
    \/ \E task_id \in TaskIds : run_scoring_task_score(task_id)
    \/ Tick

Spec == Init /\ [][Next]_vars

\* The same program started on any well-formed persisted table.
SpecAnyFile == InitAnyFile /\ [][Next]_vars

\* score_candidates called directly, on a list of any of the sizes, with
\* either invoker; the server is not running.
InitScore ==
    /\ task_store = <<>>
    /\ file = [exists |-> FALSE, valid |-> TRUE, text |-> <<>>]
    /\ now = 0
    /\ next_id = MaxLegacy + 1
    /\ bg = [t \in TaskIds |-> NoJob]
    /\ resp = NoResp
    /\ disk = "ok"
    /\ \E invoker \in Invokers, n \in ScoreSizes :
          sc = Run(invoker, Candidates(n), "loop")

NextScore ==
    \/ score_candidates_next_batch
    \/ invoke_llm_with_retry_begin
    \/ invoke_llm_with_retry_attempt
    \/ AsyncMock_call
    \/ score_candidates_batch_result
    \/ score_candidates_return

SpecScore == InitScore /\ [][NextScore]_vars

\* The server, and a persisted file that can stop being readable while the
\* server runs (a damaged or partly written file): what is left holds the
\* bytes of the records and cannot be deserialized.
file_corrupted ==
    /\ file.exists
    /\ file.valid
    /\ file' = [file EXCEPT !.valid = FALSE]
    /\ UNCHANGED <<task_store, now, next_id, bg, resp, sc, disk>>

NextCorruptFile ==
    \/ Next
    \/ file_corrupted

SpecCorruptFile == Init /\ [][NextCorruptFile]_vars

\* The server on a disk that can start and stop failing at any time.
disk_changes ==
    /\ \E d \in DiskModes \ {disk} : disk' = d
    /\ UNCHANGED <<task_store, file, now, next_id, bg, resp, sc>>

NextSaveFails ==
    \/ Next
    \/ disk_changes

SpecSaveFails == Init /\ [][NextSaveFails]_vars

\* The same program receiving, besides the lists of Candidates, lists of other
\* candidates: ScoringInput.candidates is whatever the client sends.
OtherCandidates(n) == [i \in 1..n |-> MaxCands + i]

NextAnyCandidates ==
    \/ Next
    \/ \E job_desc \in JobDescs, n \in CandSizes :
          initiate_score_endpoint(job_desc, OtherCandidates(n))

SpecAnyCandidates == Init /\ [][NextAnyCandidates]_vars

\* The server, or a direct run of score_candidates, under the scheduling the
\* code relies on: the event loop runs some background task that was added to
\* a response, and resumes it when the call it awaits has returned or raised;
\* score_candidates goes from one statement to the next, every invocation of
\* the LLM returning or raising.  Requests arrive or not: no fairness.
InitTerminates == Init \/ InitScore

NextTerminates ==
    \/ sc.pc = "none" /\ Next
    \/ NextScore

\* A step of a background task, or of the direct run.
Progress ==
    \/ \E task_id \in TaskIds : run_scoring_task_begin(task_id)
    \/ \E task_id \in TaskIds : run_scoring_task_score(task_id)
    \/ NextScore

Scheduling == WF_vars(Progress)

SpecTerminates == InitTerminates /\ [][NextTerminates]_vars /\ Scheduling

\* update_task_status called directly, with any id, status, result and
\* error_detail, on a table of tasks in any status.
UpdateTables ==
    {[k \in 1..MaxLegacy |-> LegacyTask(k, c[k], "J1")] :
        c \in [1..MaxLegacy -> TaskStatus]}
\* The ids of the table, and one id it does not hold.
UpdateIds == 1..(MaxLegacy + 1)
UpdateResults == {None, Some(ScoringOutput(<<>>, <<>>))}
UpdateErrors == {None, Some("error")}

InitUpdate ==
    /\ disk = "ok"
    /\ \E t \in UpdateTables :
          /\ task_store = t
          /\ file = save_tasks_to_file(t, [exists |-> FALSE, valid |-> TRUE, text |-> <<>>])
    /\ now = 0
    /\ next_id = MaxLegacy + 1
    /\ bg = [t \in TaskIds |-> NoJob]
    /\ resp = NoResp
    /\ sc = NoRun

\* One call; resp keeps the id and the record the table held for it before.
call_update_task_status(task_id, status, result, error_detail) ==
    /\ LET u == update_task_status(task_store, file, task_id, status,
                                   Msg("status update", 0), result, error_detail)
       IN  /\ task_store' = u.store
           /\ file' = u.file
    /\ resp' = Response("update_task_status", task_id, 0,
                        IF task_id \in Keys(task_store)
                        THEN Some(Get(task_store, task_id)) ELSE None, <<>>)
    /\ UNCHANGED <<now, next_id, bg, sc, disk>>

NextUpdate ==
    \E task_id \in UpdateIds, status \in TaskStatus,
       result \in UpdateResults, error_detail \in UpdateErrors :
          call_update_task_status(task_id, status, result, error_detail)

SpecUpdate == InitUpdate /\ [][NextUpdate]_vars

\* ====================================================================
\* Properties
\* ====================================================================
\* The records of a table that a submission of job_desc at the current time can
\* reuse: same job description, COMPLETED, with a result, created no more than
\* ten minutes ago.
Reusable(store, job_desc) ==
    {store[i] : i \in {j \in 1..Len(store) :
        /\ store[j].job_description = job_desc
        /\ store[j].status = "COMPLETED"
        /\ store[j].result # None
        /\ store[j].created_at # None
        /\ now - store[j].created_at[1] <= 10}}

Submits(job_desc) == \E n \in CandSizes : initiate_score_endpoint(job_desc, Candidates(n))

\* C1: a submission whose job description equals that of a stored COMPLETED task
\* with a result, created at most 10 minutes earlier, stores a new task under a
\* fresh id, COMPLETED at once with the matched task's result, and schedules no
\* background run.
C1_CacheHit ==
    [][\A job_desc \in JobDescs :
        (Submits(job_desc) /\ Reusable(Persisted, job_desc) # {}) =>
            /\ next_id \notin Keys(Persisted)
            /\ next_id \in Keys(Persisted') /\ next_id \in Keys(task_store')
            /\ Get(task_store', next_id) = Get(Persisted', next_id)
            /\ Get(Persisted', next_id).status = "COMPLETED"
            /\ \E src \in Reusable(Persisted, job_desc) :
                  /\ Get(Persisted', next_id).result = src.result
                  /\ Get(Persisted', next_id).message.ref = src.task_id
            /\ bg' = bg]_vars

\* A submission at exactly the ten-minute boundary was served from the cache.
C1_Witness ==
    /\ resp.op = "submit"
    /\ resp.task_id \in Keys(Persisted)
    /\ LET new == Get(Persisted, resp.task_id) IN
       /\ new.status = "COMPLETED"
       /\ new.created_at = Some(10)
       /\ new.message.ref \in Keys(Persisted)
       /\ Get(Persisted, new.message.ref).created_at = Some(0)
       /\ new.result = Get(Persisted, new.message.ref).result
    /\ bg[resp.task_id].pc = "none"

Forward(s1, s2) ==
    \/ s2 = s1
    \/ s1 = "PENDING" /\ s2 = "PROCESSING"
    \/ s1 = "PROCESSING" /\ s2 \in {"COMPLETED", "FAILED"}

\* C2: in every step (submission, poll, delete, background step, clock), the
\* status recorded for a task id that stays in the table either stays the same
\* or moves PENDING -> PROCESSING or PROCESSING -> COMPLETED | FAILED.
C2_ForwardOnly ==
    [][/\ \A t \in Keys(Persisted) \cap Keys(Persisted') :
            Forward(Get(Persisted, t).status, Get(Persisted', t).status)
       /\ \A t \in Keys(task_store) \cap Keys(task_store') :
            Forward(Get(task_store, t).status, Get(task_store', t).status)]_vars

\* A submitted task has gone through its whole run and is FAILED.
C2_Witness ==
    \E t \in TaskIds :
        /\ bg[t].pc = "done"
        /\ t \in Keys(Persisted)
        /\ Get(Persisted, t).status = "FAILED"

Consistent(info) ==
    /\ info.result # None <=> info.status = "COMPLETED"
    /\ info.error_detail # None <=> info.status = "FAILED"
    /\ ~(info.result # None /\ info.error_detail # None)

\* C3: every record of the in-memory and of the persisted table has a result
\* iff it is COMPLETED and an error_detail iff it is FAILED, never both.
C3_ResultMatchesStatus ==
    /\ \A i \in 1..Len(task_store) : Consistent(task_store[i])
    /\ \A i \in 1..Len(Persisted) : Consistent(Persisted[i])

\* The table holds a COMPLETED task with its result and a task whose background
\* run has failed, with its error_detail and no result.
C3_Witness ==
    /\ \E i \in 1..Len(Persisted) :
          Persisted[i].status = "COMPLETED" /\ Persisted[i].result # None
    /\ \E i \in 1..Len(Persisted) :
          /\ Persisted[i].status = "FAILED"
          /\ bg[Persisted[i].task_id].pc = "done"
          /\ Persisted[i].error_detail # None
          /\ Persisted[i].result = None

AllOk(n) == [k \in 1..NumBatches(n) |-> "ok"]

C5_PollReturnsCompleted ==
    (/\ resp.op = "status"
     /\ resp.code = 200
     /\ bg[resp.task_id].pc # "none"
     /\ resp.body[1].status \in {"COMPLETED", "FAILED"}) =>
        LET body == resp.body[1] IN
        /\ body.status = "COMPLETED"
        /\ body.result # None
        /\ Len(body.result[1].scored_candidates) = Len(bg[resp.task_id].candidates)
        /\ body.result[1].errors = <<>>

\* The COMPLETED records of a table with the job description job_desc that are
\* older than ten minutes, and those that are not.
Expired(store, job_desc) ==
    {store[i] : i \in {j \in 1..Len(store) :
        /\ store[j].job_description = job_desc
        /\ store[j].status = "COMPLETED"
        /\ store[j].created_at # None
        /\ now - store[j].created_at[1] > 10}}

FreshMatch(store, job_desc) ==
    {store[i] : i \in {j \in 1..Len(store) :
        /\ store[j].job_description = job_desc
        /\ store[j].status = "COMPLETED"
        /\ store[j].created_at # None
        /\ now - store[j].created_at[1] <= 10}}

\* The submission created next_id PENDING and scheduled one run: its own.
NewPendingTask(job_desc) ==
    /\ next_id \in Keys(Persisted') /\ next_id \in Keys(task_store')
    /\ Get(task_store', next_id) = Get(Persisted', next_id)
    /\ Get(Persisted', next_id).status = "PENDING"
    /\ Get(Persisted', next_id).job_description = job_desc
    /\ Get(Persisted', next_id).result = None
    /\ bg[next_id].pc = "none"
    /\ bg'[next_id].pc = "queued"
    /\ \A t \in TaskIds \ {next_id} : bg'[t] = bg[t]

\* C6: a submission removes from the in-memory and the persisted table every
\* COMPLETED task with its job description that is older than ten minutes; and
\* when no such task is fresh, it creates a new PENDING task and schedules
\* exactly one background run, for that task.
C6_EvictsExpired ==
    [][\A job_desc \in JobDescs :
        (Submits(job_desc) /\ Expired(Persisted, job_desc) # {}) =>
            /\ \A e \in Expired(Persisted, job_desc) :
                  e.task_id \notin Keys(Persisted') /\ e.task_id \notin Keys(task_store')
            /\ FreshMatch(Persisted, job_desc) = {} => NewPendingTask(job_desc)]_vars

\* A submission has just evicted two expired tasks and queued a fresh run.
C6_Witness ==
    /\ resp.op = "submit"
    /\ Len(resp.log) = 2
    /\ \A i \in 1..Len(resp.log) : resp.log[i] \notin Keys(Persisted)
    /\ resp.task_id \in Keys(Persisted)
    /\ Get(Persisted, resp.task_id).status = "PENDING"
    /\ bg[resp.task_id].pc = "queued"

\* C7: a submission creates a COMPLETED task only from a task that is COMPLETED,
\* has a result, the same job description and a created_at within 10 minutes;
\* when the table holds no such task it creates a PENDING task and schedules
\* exactly one background run for it.
C7_HitOnlyFromReusable ==
    [][\A job_desc \in JobDescs :
        Submits(job_desc) =>
            /\ next_id \in Keys(Persisted')
            /\ Get(Persisted', next_id).status = "COMPLETED" =>
                  /\ \E src \in Reusable(Persisted, job_desc) :
                        /\ src.task_id = Get(Persisted', next_id).message.ref
                        /\ src.result = Get(Persisted', next_id).result
                  /\ bg' = bg
            /\ Reusable(Persisted, job_desc) = {} => NewPendingTask(job_desc)]_vars

\* A submission met a fresh COMPLETED task with its job description and no
\* result, and queued a run; and one met a FAILED task and queued a run.
C7_Witness ==
    /\ resp.op = "submit"
    /\ bg[resp.task_id].pc = "queued"
    /\ now = 0
    /\ \E i \in 1..Len(Persisted) :
          /\ Persisted[i].status = "COMPLETED"
          /\ Persisted[i].result = None
          /\ Persisted[i].job_description = Get(Persisted, resp.task_id).job_description
    /\ \E i \in 1..Len(Persisted) :
          /\ Persisted[i].status = "FAILED"
          /\ Persisted[i].job_description = Get(Persisted, resp.task_id).job_description

\* C8: a status poll leaves the persisted table as it is, answers 200 with the
\* record the persisted table holds for the id, and 404 exactly when the
\* persisted table holds none.
C8_PollReadsPersisted ==
    [][\A t \in TaskIds :
        get_score_status_endpoint(t) =>
            /\ file' = file
            /\ resp'.op = "status" /\ resp'.task_id = t
            /\ resp'.code = 404 <=> t \notin Keys(Persisted)
            /\ t \in Keys(Persisted) =>
                  resp'.code = 200 /\ resp'.body = Some(Get(Persisted, t))
            /\ t \notin Keys(Persisted) => resp'.body = None]_vars

\* A poll returned the record that the background run last wrote.
C8_Witness ==
    /\ resp.op = "status"
    /\ resp.code = 200
    /\ bg[resp.task_id].pc = "done"
    /\ resp.body[1].status = "FAILED"
    /\ resp.body = Some(Get(Persisted, resp.task_id))

\* C9: a delete of an id absent from the persisted table answers 404 and leaves
\* the persisted table as it is; a delete of a present id answers 204 and
\* persists the table without exactly that record; a delete of an id that
\* follows a delete of the same id answers 404.
C9_Delete ==
    [][\A t \in TaskIds :
        delete_task_endpoint(t) =>
            /\ t \notin Keys(Persisted) =>
                  /\ resp'.code = 404
                  /\ file' = file
                  /\ task_store' = Persisted
            /\ t \in Keys(Persisted) =>
                  /\ resp'.code = 204
                  /\ Persisted' = Pop(Persisted, t)
                  /\ Keys(Persisted') = Keys(Persisted) \ {t}
                  /\ task_store' = Persisted'
            /\ (resp.op = "delete" /\ resp.task_id = t) => resp'.code = 404]_vars

\* A delete of a task that had been submitted, and deleted since, answered 404.
C9_Witness ==
    /\ resp.op = "delete"
    /\ resp.code = 404
    /\ bg[resp.task_id].pc # "none"
    /\ resp.task_id \notin Keys(Persisted)

\* C10: a status update of an id absent from the in-memory table changes
\* neither table; and an id that has been given out and is in neither table is
\* in neither table after any step.
C10_NoRecreate ==
    [][/\ \A t \in TaskIds :
            ((run_scoring_task_begin(t) \/ run_scoring_task_score(t))
                /\ t \notin Keys(task_store)) =>
                    task_store' = task_store /\ file' = file
       /\ \A t \in TaskIds :
            (t < next_id /\ t \notin Keys(task_store) /\ t \notin Keys(Persisted)) =>
                    t \notin Keys(task_store') /\ t \notin Keys(Persisted')]_vars

\* A run has ended for a task that was deleted while the run was queued.
C10_Witness ==
    \E t \in TaskIds :
        /\ bg[t].pc = "done"
        /\ t \notin Keys(Persisted)
        /\ t \notin Keys(task_store)

\* ------------------------------------------------------------ batch scoring
RECURSIVE Concat(_)
Concat(seqs) == IF seqs = <<>> THEN <<>> ELSE Head(seqs) \o Concat(Tail(seqs))

FailedBatches == SelectSeq(sc.log, LAMBDA e : e.outcome.raised)
ScoredBatches == SelectSeq(sc.log, LAMBDA e : ~e.outcome.raised)
ResultsOf(batches) == Concat([j \in 1..Len(batches) |-> batches[j].outcome.value.array[1]])
IdsOf(batches) == Concat([j \in 1..Len(batches) |-> batches[j].ids])

\* C11: each batch that has failed has contributed exactly one error string,
\* in order, naming all its candidate ids, and no scored entry; the scored list
\* is the results of the batches that returned, one after the other, as it
\* would be had no batch failed; and when score_candidates has returned every
\* candidate was in a batch that was attempted.
C11_FailedBatchOneError ==
    /\ Len(sc.errors) = Len(FailedBatches)
    /\ \A j \in 1..Len(FailedBatches) :
          /\ sc.errors[j].ids = FailedBatches[j].ids
          /\ sc.errors[j].exc = FailedBatches[j].outcome.exc.name
    /\ sc.all_scored_candidates = ResultsOf(ScoredBatches)
    /\ \A i \in 1..Len(sc.all_scored_candidates), j \in 1..Len(FailedBatches) :
          \A m \in 1..Len(FailedBatches[j].ids) :
              sc.all_scored_candidates[i].id # FailedBatches[j].ids[m]
    /\ sc.pc = "returned" => IdsOf(sc.log) = sc.candidates

\* score_candidates has returned; its first batch failed and its second batch
\* was scored, so there is one error, for the ten candidates of the first
\* batch, and the scored list is that of the second batch.
C11_Witness ==
    /\ sc.pc = "returned"
    /\ Len(sc.log) = 2
    /\ sc.log[1].outcome.raised
    /\ ~sc.log[2].outcome.raised
    /\ Len(sc.errors) = 1
    /\ Len(sc.errors[1].ids) = 10
    /\ Len(sc.all_scored_candidates) = 1
    /\ sc.all_scored_candidates[1].id = 11

Ceil10(n) == CHOOSE m \in 0..n : m * 10 >= n /\ (m - 1) * 10 < n

\* C12: the batches attempted so far are consecutive slices of the candidate
\* list, in input order, each of 1 to 10 candidates; when score_candidates has
\* returned there were ceil(N/10) of them, they cover the list exactly once,
\* and if all of them were scored the scored list is their results in batch
\* order and the error list is empty.
C12_Batches ==
    /\ \A j \in 1..Len(sc.log) : Len(sc.log[j].ids) \in 1..10
    /\ IdsOf(sc.log) = SubSeq(sc.candidates, 1, Len(IdsOf(sc.log)))
    /\ sc.pc = "returned" =>
          /\ Len(sc.log) = Ceil10(Len(sc.candidates))
          /\ IdsOf(sc.log) = sc.candidates
          /\ FailedBatches = <<>> =>
                /\ sc.all_scored_candidates = ResultsOf(sc.log)
                /\ sc.errors = <<>>

\* score_candidates has returned for 21 candidates: three batches, of 10, 10
\* and 1 candidates, all scored, 21 scored entries in input order.
C12_Witness ==
    /\ sc.pc = "returned"
    /\ Len(sc.candidates) = 21
    /\ Len(sc.log) = 3
    /\ Len(sc.log[3].ids) = 1
    /\ FailedBatches = <<>>
    /\ [i \in 1..Len(sc.all_scored_candidates) |-> sc.all_scored_candidates[i].id]
          = sc.candidates

\* What a call of the invoker came back with.
Parsed(call) == ~call.outcome.raised /\ call.outcome.value.type = "list"
ParseFailure(call) ==
    /\ call.outcome.raised
    /\ \/ call.outcome.exc.name = "OutputParserException"
       \/ call.outcome.exc = Exc("RetryError", "OutputParserException")
ValidJson(call) ==
    /\ ~call.outcome.raised
    /\ call.outcome.value.type = "str"
    /\ ~call.outcome.value.prose
    /\ call.outcome.value.array # None
NotJson(call) ==
    \/ call.outcome.raised /\ call.outcome.exc.name = "OutputParserException"
    \/ /\ ~call.outcome.raised
       /\ call.outcome.value.type = "str"
       /\ (call.outcome.value.prose \/ call.outcome.value.array = None)

\* C13 (as claimed): every batch whose first call of the invoker came back with
\* the parsed list has returned that list, after that one call.
C13_FirstAttemptParsed ==
    \A j \in 1..Len(sc.log) :
        Parsed(sc.log[j].invoked[1]) =>
            /\ sc.log[j].outcome = sc.log[j].invoked[1].outcome
            /\ Len(sc.log[j].invoked) = 1

\* C14 (as claimed): every batch whose first attempt ended in a parse failure
\* has called the invoker exactly twice, and if the second call came back with
\* a text that is valid JSON the batch has returned the content of that text.
C14_SecondAttemptParsed ==
    \A j \in 1..Len(sc.log) :
        ParseFailure(sc.log[j].invoked[1]) =>
            /\ Len(sc.log[j].invoked) = 2
            /\ ValidJson(sc.log[j].invoked[2]) =>
                  sc.log[j].outcome =
                      Returned(PyList(sc.log[j].invoked[2].outcome.value.array[1]))

InvokerCalls ==
    {sc.invoked[a] : a \in 1..Len(sc.invoked)}
        \cup UNION {{sc.log[j].invoked[a] : a \in 1..Len(sc.log[j].invoked)} :
                        j \in 1..Len(sc.log)}

\* C16: a call of invoke_llm_with_retry calls the chain at most 3 times; every
\* chain call before the last one raised; a call that returned returned what
\* its last chain call returned; a call that raised made 3 chain calls, all of
\* which raised, and raised RetryError carrying the exception of the third.
C16_RetryCeiling ==
    sc.invoker = "invoke_llm_with_retry" =>
        /\ Len(sc.chain_log) <= 3
        /\ \A call \in InvokerCalls :
              LET c == call.calls IN
              /\ Len(c) \in 1..3
              /\ \A i \in 1..(Len(c) - 1) : c[i].raised
              /\ ~call.outcome.raised => call.outcome = c[Len(c)]
              /\ call.outcome.raised =>
                    /\ Len(c) = 3
                    /\ c[3].raised
                    /\ call.outcome.exc = Exc("RetryError", c[3].exc.name)

\* A call of invoke_llm_with_retry has raised RetryError carrying the provider
\* error of its third chain call, after a parse failure in its first; and
\* another has returned what its second chain call returned.
C16_Witness ==
    /\ sc.invoker = "invoke_llm_with_retry"
    /\ \E call \in InvokerCalls :
          /\ Len(call.calls) = 3
          /\ call.calls[1].exc.name = "OutputParserException"
          /\ call.calls[3].exc.name = "APIError"
          /\ call.outcome = Raised(Exc("RetryError", "APIError"))
    /\ \E call \in InvokerCalls :
          /\ Len(call.calls) = 2
          /\ ~call.outcome.raised

\* C17 (as claimed): when invoke_llm_with_retry is the invoker and a chain call
\* of the strict attempt raised OutputParserException, that was the only chain
\* call of the attempt, the invoker raised OutputParserException, and the batch
\* went on to call the invoker for the lenient attempt.
C17_ParseFailureNotRetried ==
    sc.invoker = "invoke_llm_with_retry" =>
        \A j \in 1..Len(sc.log) :
            LET first == sc.log[j].invoked[1] IN
            (\E i \in 1..Len(first.calls) :
                first.calls[i].exc.name = "OutputParserException") =>
                    /\ Len(first.calls) = 1
                    /\ first.outcome = Raised(Exc("OutputParserException", ""))
                    /\ Len(sc.log[j].invoked) = 2

\* C18 (as claimed): score_candidates accepts the progress callback: the call
\* a background run makes, with progress_callback among its keyword arguments,
\* is not rejected, and no run has ended with the TypeError of a rejected call.
C18_ProgressCallbackAccepted ==
    \A t \in TaskIds :
        /\ bg[t].pc = "processing" =>
              \A llm \in LlmBehaviours(Len(bg[t].candidates)) :
                  ~call_score_candidates(run_scoring_task_kwargs,
                                         bg[t].candidates, llm).raised
        /\ (bg[t].pc = "done" /\ t \in Keys(task_store)) =>
              Get(task_store, t).error_detail # Some("TypeError")

\* C19 (as claimed): a call of update_task_status for a task that is COMPLETED
\* or FAILED, asking for PENDING or PROCESSING, leaves the task's status,
\* result and error_detail as they were.
C19_BackwardUpdateFails ==
    [][\A t \in UpdateIds, status \in {"PENDING", "PROCESSING"},
          result \in UpdateResults, error_detail \in UpdateErrors :
        (/\ call_update_task_status(t, status, result, error_detail)
         /\ t \in Keys(task_store)
         /\ Get(task_store, t).status \in {"COMPLETED", "FAILED"}) =>
            /\ Get(task_store', t).status = Get(task_store, t).status
            /\ Get(task_store', t).result = Get(task_store, t).result
            /\ Get(task_store', t).error_detail = Get(task_store, t).error_detail]_vars

\* C20: while the persisted file exists and cannot be deserialized, a poll and
\* a delete set the in-memory table to empty, answer 404 and leave the file as
\* it is, and a submission answers 202, creates its task PENDING with one
\* background run, and leaves that task alone in the in-memory table.
C20_CorruptFileIsEmptyTable ==
    [][(file.exists /\ ~file.valid) =>
        /\ \A t \in TaskIds :
              get_score_status_endpoint(t) =>
                  /\ task_store' = <<>>
                  /\ resp'.code = 404 /\ resp'.body = None
                  /\ file' = file
        /\ \A t \in TaskIds :
              delete_task_endpoint(t) =>
                  /\ task_store' = <<>>
                  /\ resp'.code = 404
                  /\ file' = file
        /\ \A job_desc \in JobDescs :
              Submits(job_desc) =>
                  /\ resp'.code = 202
                  /\ NewPendingTask(job_desc)
                  /\ Keys(task_store') = {next_id}
                  /\ file'.valid]_vars

\* A poll of a task whose record was in the file before the file became
\* unreadable has answered 404 and emptied the in-memory table.
C20_Witness ==
    /\ resp.op = "status"
    /\ resp.code = 404
    /\ file.exists /\ ~file.valid
    /\ \E i \in 1..Len(file.text) : file.text[i].task_id = resp.task_id
    /\ bg[resp.task_id].pc = "done"
    /\ task_store = <<>>

\* ------------------------------------------------------------ failing saves
\* C21 (as claimed): a step of the server taken while saves fail leaves the
\* persisted table holding exactly what it held before the step; the step
\* itself ends normally, with its usual response.
C21_FailedSaveKeepsFile ==
    [][(disk # "ok" /\ Next) =>
        /\ Persisted' = Persisted
        /\ resp'.code \in {0, 200, 202, 204, 404}]_vars

\* C26 (as claimed): when the last response is the 204 of a delete, the
\* persisted table holds no record for the deleted id, whether or not the save
\* of that delete succeeded; so a poll or a delete of that id that follows
\* finds nothing.
C26_DeletedStaysDeleted ==
    (resp.op = "delete" /\ resp.code = 204) => resp.task_id \notin Keys(Persisted)

\* The chain calls made by a sequence of calls of the invoker.
RECURSIVE ChainCalls(_)
ChainCalls(invoked) ==
    IF invoked = <<>> THEN 0
    ELSE Len(Head(invoked).calls) + ChainCalls(Tail(invoked))

\* The chain calls made so far for the batch being scored: those of the calls
\* of the invoker that have ended, and those of the call in its retry loop.
ChainCallsNow ==
    ChainCalls(sc.invoked) + (IF sc.pc = "chain" THEN Len(sc.chain_log) ELSE 0)

\* C23: for one batch, over both parse attempts and all the retries of the
\* invoker, the chain is called at most 6 times, at any moment of the batch
\* and when the call of score_candidates_batch has returned or raised.
C23_ChainCallsPerBatch ==
    /\ sc.pc \in {"batch", "chain", "result"} => ChainCallsNow <= 2 * MAX_RETRIES
    /\ \A j \in 1..Len(sc.log) : ChainCalls(sc.log[j].invoked) <= 2 * MAX_RETRIES

\* C23 witness: a batch has ended after the retry loop called the chain
\* MAX_RETRIES times for it, and the run has gone on to a later batch.
C23_Witness ==
    /\ sc.invoker = "invoke_llm_with_retry"
    /\ Len(sc.log) >= 2
    /\ ChainCalls(sc.log[1].invoked) = MAX_RETRIES
    /\ sc.log[1].outcome.raised
    /\ ChainCalls(sc.log[2].invoked) = 1

\* What the second call of the invoker came back with: a text holding a valid
\* JSON array surrounded by prose or markdown fencing.
WrappedJson(call) ==
    /\ ~call.outcome.raised
    /\ call.outcome.value.type = "str"
    /\ call.outcome.value.prose
    /\ call.outcome.value.array # None

\* C27 (as claimed): every batch whose second, lenient attempt got a valid
\* JSON array surrounded by prose or markdown fencing has returned the records
\* of that array.
C27_LenientFindsTheArray ==
    \A j \in 1..Len(sc.log) :
        (Len(sc.log[j].invoked) = 2 /\ WrappedJson(sc.log[j].invoked[2])) =>
            /\ ~sc.log[j].outcome.raised
            /\ sc.log[j].outcome.value.array =
                   sc.log[j].invoked[2].outcome.value.array

Terminal(info) == info.status \in {"COMPLETED", "FAILED"}

\* A record of a table before a step against the same record after it.
Immutable(old, new) ==
    /\ new.created_at = old.created_at
    /\ new.job_description = old.job_description
    /\ old.result # None => new.result = old.result
    /\ old.error_detail # None => new.error_detail = old.error_detail
    /\ Terminal(old) => new = old

\* C24: in every step, for a record that stays in the table (persisted or in
\* memory): created_at and job_description are unchanged; a result or an
\* error_detail that was set is unchanged; a COMPLETED or FAILED record is
\* unchanged altogether.  A COMPLETED or FAILED record leaves the persisted
\* table only by a delete of its id or by a submission.
C24_TerminalRecordsImmutable ==
    [][/\ \A t \in Keys(Persisted) \cap Keys(Persisted') :
            Immutable(Get(Persisted, t), Get(Persisted', t))
       /\ \A t \in Keys(task_store) \cap Keys(task_store') :
            Immutable(Get(task_store, t), Get(task_store', t))
       /\ \A t \in Keys(Persisted) \ Keys(Persisted') :
            Terminal(Get(Persisted, t)) =>
                \/ delete_task_endpoint(t)
                \/ \E job_desc \in JobDescs : Submits(job_desc)]_vars

\* C24 witness: a submitted task has FAILED with an error detail, a poll has
\* since reloaded and returned it, and a legacy COMPLETED record with its
\* result is still in the table next to it.
C24_Witness ==
    \E t \in TaskIds, l \in 1..MaxLegacy :
        /\ bg[t].pc = "done"
        /\ t \in Keys(Persisted) \cap Keys(task_store)
        /\ resp = Response("status", t, 200, Some(Get(Persisted, t)), <<>>)
        /\ Get(task_store, t).status = "FAILED"
        /\ Get(task_store, t).error_detail # None
        /\ l \in Keys(Persisted)
        /\ Get(Persisted, l) = LegacyTask(l, "COMPLETED", Get(Persisted, l).job_description)

\* C25: a submission with job description J adds exactly one record, under an
\* id the table did not hold; every record it removes is a COMPLETED task with
\* job description J created more than ten minutes earlier; every other
\* record, of another job description or PENDING, PROCESSING or FAILED of any
\* age, stays in the table as it was.
C25_SubmissionTouchesOnlyExpired ==
    [][\A job_desc \in JobDescs :
        Submits(job_desc) =>
            /\ next_id \notin Keys(Persisted)
            /\ Keys(Persisted') \ Keys(Persisted) = {next_id}
            /\ Len(Persisted') = Cardinality(Keys(Persisted'))
            /\ \A t \in Keys(Persisted) :
                  IF t \in Keys(Persisted')
                  THEN Get(Persisted', t) = Get(Persisted, t)
                  ELSE Get(Persisted, t) \in Expired(Persisted, job_desc)
            /\ \A t \in Keys(task_store') : t \in Keys(Persisted')
                  /\ Get(task_store', t) = Get(Persisted', t)]_vars

\* C25 witness: a submission made twenty minutes after start-up has kept a
\* record that has been PROCESSING since start-up and the FAILED record of a
\* task submitted at start-up, both with its own job description.
C25_Witness ==
    /\ resp.op = "submit"
    /\ now = 2 * FRESH_MINUTES
    /\ resp.task_id \in Keys(Persisted)
    /\ Get(Persisted, resp.task_id).created_at = Some(now)
    /\ \E p, f \in Keys(Persisted) :
          /\ Get(Persisted, p).status = "PROCESSING"
          /\ Get(Persisted, f).status = "FAILED"
          /\ Get(Persisted, p).created_at = Some(0)
          /\ Get(Persisted, f).created_at = Some(0)
          /\ Get(Persisted, p).job_description = Get(Persisted, resp.task_id).job_description
          /\ Get(Persisted, f).job_description = Get(Persisted, resp.task_id).job_description

\* A task completed by a cache hit names in its message the task whose result
\* it copied.
FromCache(info) == info.message.text = "Result retrieved from cache"

\* The task whose scoring run computed the result of task t: t itself, or the
\* origin of the task it was copied from.
RECURSIVE Origin(_, _)
Origin(store, t) ==
    IF FromCache(Get(store, t)) /\ Get(store, t).message.ref \in Keys(store)
    THEN Origin(store, Get(store, t).message.ref)
    ELSE t

\* C28 (as claimed): whenever a submission is served from cache, the task
\* whose scoring run computed the reused result was created at most ten
\* minutes before the submission, also when the matched task was itself
\* completed by a cache hit.
C28_ReusedResultIsFresh ==
    [][\A job_desc \in JobDescs :
        (Submits(job_desc) /\ FromCache(Get(Persisted', next_id))) =>
            LET matched == Get(Persisted', next_id).message.ref
                origin == Get(Persisted, Origin(Persisted, matched))
            IN  /\ origin.created_at # None
                /\ now - origin.created_at[1] <= FRESH_MINUTES]_vars

\* C30: once a request has been handled, and so the table loaded, the
\* in-memory table equals the persisted table after every submission, poll,
\* delete and status update, no save having failed: the same task ids in the
\* same order with the same records.
C30_MemoryEqualsPersisted ==
    resp.op # "none" => task_store = Persisted

\* C30 witness: a submitted task has had both its status updates, a legacy
\* task has been deleted, and the last request was a poll.
C30_Witness ==
    /\ resp.op = "status"
    /\ \E t \in Keys(task_store) :
          bg[t].pc = "done" /\ Get(task_store, t).status = "FAILED"
    /\ \E l \in 1..MaxLegacy : l \notin Keys(task_store)
    /\ Len(task_store) = MaxSubmits

CandidateLists ==
    {Candidates(n) : n \in CandSizes} \cup {OtherCandidates(n) : n \in CandSizes}
Range(seq) == {seq[i] : i \in 1..Len(seq)}

\* C29 (as claimed): a task that a submission leaves COMPLETED has in its
\* result only scored candidates whose id is the id of a candidate of the
\* list submitted with it, also when it was completed by a cache hit.
C29_ResultOfOwnCandidates ==
    [][\A job_desc \in JobDescs, candidates \in CandidateLists :
        (/\ initiate_score_endpoint(job_desc, candidates)
         /\ Get(Persisted', next_id).status = "COMPLETED") =>
            \A scored \in Range(Get(Persisted', next_id).result[1].scored_candidates) :
                scored.id \in Range(candidates)]_vars

\* A step changed or removed the persisted record of task t.
Touched(t) ==
    IF t \in Keys(Persisted)
    THEN IF t \in Keys(Persisted')
         THEN Get(Persisted', t) # Get(Persisted, t)
         ELSE TRUE
    ELSE FALSE

\* The steps that are meant to change or remove the record of task t: a delete
\* of t, a status update of the run of t, and a submission evicting t as an
\* expired COMPLETED task of its job description.
OwnWrite(t) ==
    \/ delete_task_endpoint(t)
    \/ run_scoring_task_begin(t)
    \/ run_scoring_task_score(t)
    \/ \E job_desc \in JobDescs :
          Submits(job_desc) /\ t \in {e.task_id : e \in Expired(Persisted, job_desc)}

\* A step that discards what another operation wrote.
DiscardsAWrite == \E t \in TaskIds : Touched(t) /\ ~OwnWrite(t)

\* A submission can be accepted while the status update of an earlier
\* submission is still to come.
RaceReady ==
    /\ Idle
    /\ next_id <= MaxLegacy + MaxSubmits
    /\ Keys(Persisted) # {}
    /\ \E t \in TaskIds : bg[t].pc = "queued"

\* C22 (as claimed): where a submission and a background status update, or
\* two submissions, are both to come, one of them can be taken as a step whose
\* save discards a record or a status change that an earlier operation wrote,
\* no save having failed.
C22_LaterSaveDiscards ==
    RaceReady => ENABLED (Next /\ DiscardsAWrite)

\* C22 (amended): no step discards what another operation wrote.  A step
\* changes or removes a persisted record only as a delete of that task, a
\* status update of that task's run, or a submission evicting it as expired;
\* and what the step itself writes is in the persisted table after it: the
\* record of a submission, the status of an update.
C22_NoLostUpdate ==
    [][/\ ~DiscardsAWrite
       /\ \A job_desc \in JobDescs :
             Submits(job_desc) => next_id \in Keys(Persisted')
       /\ \A t \in Keys(Persisted) :
             /\ run_scoring_task_begin(t) =>
                   t \in Keys(Persisted') /\ Get(Persisted', t).status = "PROCESSING"
             /\ run_scoring_task_score(t) =>
                   t \in Keys(Persisted') /\ Terminal(Get(Persisted', t))]_vars

\* C22 witness: two submissions were accepted one after the other; the run of
\* the second has made both its status updates while the run of the first is
\* still queued, and the table holds the first record as submitted and the
\* second with its final status.
C22_Witness ==
    \E t1, t2 \in Keys(Persisted) :
        /\ t1 < t2
        /\ bg[t1].pc = "queued"
        /\ bg[t2].pc = "done"
        /\ Get(Persisted, t1).status = "PENDING"
        /\ Terminal(Get(Persisted, t2))

\* The persisted record of task t is PENDING or PROCESSING.
Unsettled(t) ==
    IF t \in Keys(Persisted) THEN ~Terminal(Get(Persisted, t)) ELSE FALSE

\* C31: no task stays PENDING or PROCESSING forever, and no run of
\* score_candidates goes on forever, whatever its batches return or raise:
\* again and again, every persisted record is COMPLETED or FAILED and the run
\* of score_candidates, if there is one, has returned.
C31_EveryTaskSettles ==
    []<>(/\ \A t \in TaskIds : ~Unsettled(t)
         /\ sc.pc \in {"none", "returned"})

\* C31 witness: both submitted tasks were created PENDING, neither was
\* deleted, and both runs have ended with the record FAILED.
C31_Witness ==
    /\ next_id = MaxLegacy + MaxSubmits + 1
    /\ \A t \in (MaxLegacy + 1)..(MaxLegacy + MaxSubmits) :
          /\ bg[t].pc = "done"
          /\ t \in Keys(Persisted)
          /\ Terminal(Get(Persisted, t))

\* Some batch of the run returns records that break the schema.
SomeInvalid(llm) == \E k \in DOMAIN llm : llm[k] = "invalid"

====
